---------------------------- MODULE Spec2Model ----------------------------
(***************************************************************************)
(* Model of run.py, the "Mission Control: Data Integrity" page: the        *)
(* trajectory engine calculate_mission_state, the sidebar controls that    *)
(* choose its argument, and the metrics, plot, equation panel and table    *)
(* the script draws from its result on every run.                          *)
(*                                                                         *)
(* Numbers.  The script computes in IEEE doubles.  The model computes in   *)
(* decimal fixed point, rounding every product to the nearest unit:        *)
(*   - a pure number (a ratio, a time, an angle, a cosine) is an integer   *)
(*     count of 1/ONE = 1e-8;                                              *)
(*   - a length in km is an integer count of 1/KM km = 1e-3 km.            *)
(* Doubles agree with the real result to about 1e-12 km here, the model to *)
(* about 2e-3 km.  The page prints to 1e-2 km or coarser: the radius and   *)
(* the drift print the same from both, a coordinate may differ by one in   *)
(* its last printed digit.  TLC's integers are 32 bits wide, so products   *)
(* are formed limb by limb (LIMB = 1e4, ONE = LIMB^2).                     *)
(***************************************************************************)
EXTENDS Integers, Sequences, FiniteSets, TLC

VARIABLES
    db_mode,       \* the "Database State" radio
    slider,        \* the "Anomaly Severity (%)" slider's value
    error_val,     \* the argument handed to the engine
    paths_t,       \* <<x_t, y_t, z_t>>, the true path
    paths_e,       \* <<x_e, y_e, z_e>>, the ghost path
    snap,          \* <<snap_xt, snap_yt, snap_xe, snap_ye, r_err>>
    m2,            \* the "DB Reported Radius" metric
    drift,         \* the planar drift at the snapshot
    m3,            \* the "Targeting Drift" metric
    fig,           \* the traces of the 3D figure, in the order added
    col_math,      \* what the "Equation Resolution" column shows
    df_un,         \* the Radius column of the unnormalized table
    runs,          \* script runs so far
    engine_calls,  \* calls of calculate_mission_state so far
    renders        \* pages drawn so far

vars == <<db_mode, slider, error_val, paths_t, paths_e, snap, m2, drift, m3,
          fig, col_math, df_un, runs, engine_calls, renders>>

\* ------------------------------------------------------------ arithmetic

KM == 1000
LIMB == 10000
ONE == LIMB * LIMB

Abs(a) == IF a < 0 THEN -a ELSE a
Sgn(a) == IF a < 0 THEN -1 ELSE 1

\* a / n for an integer n > 0, rounded to the nearest unit (half away from 0).
FxQuot(a, n) == Sgn(a) * ((2 * Abs(a) + n) \div (2 * n))

\* The product of two non-negative fixed-point numbers a * b / ONE, rounded to
\* the nearest unit, without forming a * b.
MagMul(a, b) ==
    LET ah == a \div LIMB
        al == a % LIMB
        bh == b \div LIMB
        bl == b % LIMB
        low == (al * bl + ONE \div 2) \div LIMB
    IN  ah * bh + (ah * bl + al * bh + low) \div LIMB

\* Floating-point `a * b` where b is a pure number: the result has a's unit.
FxMul(a, b) == Sgn(a) * Sgn(b) * MagMul(Abs(a), Abs(b))

\* A wide natural <<hi, lo>> = hi * ONE + lo, for squares and their sums.
WSq(a) ==
    LET m == Abs(a)
        ah == m \div LIMB
        al == m % LIMB
        mid == 2 * ah * al
        lo == (mid % LIMB) * LIMB + al * al
    IN  <<ah * ah + mid \div LIMB + lo \div ONE, lo % ONE>>

WAdd(p, q) == <<p[1] + q[1] + (p[2] + q[2]) \div ONE, (p[2] + q[2]) % ONE>>

WLeq(p, q) == p[1] < q[1] \/ (p[1] = q[1] /\ p[2] <= q[2])

\* floor(sqrt(n)) of a wide natural n < ONE^2, by bisection on lo..hi.
RECURSIVE SqrtSearch(_, _, _)
SqrtSearch(n, lo, hi) ==
    IF lo >= hi THEN lo
    ELSE LET mid == (lo + hi + 1) \div 2
         IN  IF WLeq(WSq(mid), n) THEN SqrtSearch(n, mid, hi)
             ELSE SqrtSearch(n, lo, mid - 1)

\* np.sqrt of a wide natural, rounded to the nearest unit.
np_sqrt(n) ==
    LET d == SqrtSearch(n, 0, ONE - 1)
    IN  IF WLeq(WAdd(WSq(d), <<0, d>>), n) /\ WAdd(WSq(d), <<0, d>>) # n
        THEN d + 1 ELSE d

\* np.cos and np.sin of an angle x >= 0 in radians: reduce by the nearest
\* multiple of pi, then sum the Taylor series to TaylorTerms terms.
PI == 314159265
TaylorTerms == 10

RECURSIVE Series(_, _, _, _, _)
Series(term, y2, k, first, acc) ==
    IF k > TaylorTerms THEN acc
    ELSE LET next == FxQuot(-FxMul(term, y2),
                            (2 * k - first) * (2 * k + 1 - first))
         IN  Series(next, y2, k + 1, first, acc + next)

Reduced(x) == x - ((x + PI \div 2) \div PI) * PI
Flip(x) == IF ((x + PI \div 2) \div PI) % 2 = 0 THEN 1 ELSE -1

np_cos(x) ==
    LET y == Reduced(x)
    IN  Flip(x) * Series(ONE, FxMul(y, y), 1, 1, ONE)

np_sin(x) ==
    LET y == Reduced(x)
    IN  Flip(x) * Series(y, FxMul(y, y), 1, 0, y)


\* An integer quotient p / n (p >= 0, n > 0) as a pure number.
FxRatio(p, n) ==
    LET q == p * LIMB
    IN  (q \div n) * LIMB + ((q % n) * LIMB + n \div 2) \div n

\* np.linspace with the endpoint left out (endpoint=False): the step is
\* (stop - start) / num.
np_linspace_open(start, stop, num) ==
    [i \in 1..num |-> start * ONE + FxRatio((i - 1) * (stop - start), num)]

\* np.linspace(start, stop, num) for integers start <= stop: num samples,
\* the first at start and the last at stop.
np_linspace(start, stop, num) ==
    [i \in 1..num |-> start * ONE + FxRatio((i - 1) * (stop - start), num - 1)]

\* f"{x:.0f}" and f"{x:.2f}" of a length: the nearest whole km, and the nearest
\* hundredth of a km as a count of hundredths (halves go to the even digit).
RoundHalfEven(a, n) ==
    LET q == Abs(a) \div n
        r == Abs(a) % n
    IN  Sgn(a) * (IF 2 * r > n \/ (2 * r = n /\ q % 2 = 1) THEN q + 1 ELSE q)

fmt0(x) == RoundHalfEven(x, KM)
fmt2(x) == RoundHalfEven(x, KM \div 100)

\* ------------------------------------------------ 2. data & math engine

r_base == 7000
omega == ONE \div 2
t_snapshot == (15 * ONE) \div 2
t_range == np_linspace(0, 10, 100)

\* np.cos(omega * t_range) and np.sin(omega * t_range).
cos_wt == [i \in DOMAIN t_range |-> np_cos(FxMul(omega, t_range[i]))]
sin_wt == [i \in DOMAIN t_range |-> np_sin(FxMul(omega, t_range[i]))]

\* Path math.
x_t == [i \in DOMAIN t_range |-> FxMul(r_base * KM, cos_wt[i])]
y_t == [i \in DOMAIN t_range |-> FxMul(r_base * KM, sin_wt[i])]
z_t == [i \in DOMAIN t_range |-> FxMul(100 * KM, t_range[i])]

\* error_pct // 100: the floor division of two integers.
r_err_floordiv(error_pct) ==
    FxMul(r_base * KM, ONE + (error_pct \div 100) * ONE)

\* y's sine in x's place.
x_e_sin(r) == [i \in DOMAIN t_range |-> FxMul(r, sin_wt[i])]

\* Error math.  error_pct / 100 is a pure number.
r_err(error_pct) == FxMul(r_base * KM, ONE + error_pct * (ONE \div 100))
x_e(r) == [i \in DOMAIN t_range |-> FxMul(r, cos_wt[i])]
y_e(r) == [i \in DOMAIN t_range |-> FxMul(r, sin_wt[i])]
z_e == z_t

\* Snapshot values for the live equation.
snap_xt == FxMul(r_base * KM, np_cos(FxMul(omega, t_snapshot)))
snap_yt == FxMul(r_base * KM, np_sin(FxMul(omega, t_snapshot)))
snap_xe(r) == FxMul(r, np_cos(FxMul(omega, t_snapshot)))
snap_ye(r) == FxMul(r, np_sin(FxMul(omega, t_snapshot)))

snapshot(error_pct) ==
    LET r == r_err(error_pct)
    IN  <<snap_xt, snap_yt, snap_xe(r), snap_ye(r), r>>

calculate_mission_state(error_pct) ==
    LET r == r_err(error_pct)
    IN  << <<x_t, y_t, z_t>>, <<x_e(r), y_e(r), z_e>>, snapshot(error_pct) >>

\* ---------------------------------------------------------- 3. sidebar

Normalized == "Normalized (Healthy)"
Unnormalized == "Unnormalized (Data Anomaly)"
Modes == {Normalized, Unnormalized}

\* st.sidebar.slider("Anomaly Severity (%)", 5, 50, 20)
SliderValues == 5..50
SliderDefault == 20

\* The test against a label the radio never returns.
ErrorValLabel(mode, sl) == IF mode = "Normalized" THEN 0 ELSE sl

\* error_val = 0 if db_mode == "Normalized (Healthy)" else <the slider>
ErrorVal(mode, sl) == IF mode = Normalized THEN 0 ELSE sl

\* ------------------------------------------------------ 4. top metrics

\* m2: st.metric("DB Reported Radius", f"{snap[4]:.0f} km", delta=delta);
\* delta is <<e>> for f"{e}%" and <<>> for None.
metric2(ev, s) ==
    [value |-> fmt0(s[5]), delta |-> IF ev > 0 THEN <<ev>> ELSE <<>>]

\* The drift with its y term left out.
drift_x_only(s) == np_sqrt(WSq(s[1] - s[3]))

\* drift = np.sqrt((snap[0]-snap[2])**2 + (snap[1]-snap[3])**2)
targeting_drift(s) == np_sqrt(WAdd(WSq(s[1] - s[3]), WSq(s[2] - s[4])))

\* The threshold with >= for >.
status_ge(d) == IF d >= 500 * KM THEN "CRITICAL" ELSE "OK"

\* delta="CRITICAL" if drift > 500 else "OK"
status(d) == IF d > 500 * KM THEN "CRITICAL" ELSE "OK"

\* m3: st.metric("Targeting Drift", f"{drift:.2f} km", delta=...)
metric3(d) == [value |-> fmt2(d), delta |-> status(d)]

\* ------------------------------------------- 5. 3D graph & live math

Trace(name, x, y, z) == [name |-> name, x |-> x, y |-> y, z |-> z]

\* The ghost trace added on >= 0.
ghost_traces_always(ev, pe) ==
    IF ev >= 0 THEN <<Trace("Ghost Path", pe[1], pe[2], pe[3])>> ELSE <<>>

ghost_traces(ev, pe) ==
    IF ev > 0 THEN <<Trace("Ghost Path", pe[1], pe[2], pe[3])>> ELSE <<>>

col_graph(ev, pt, pe) ==
    <<Trace("Earth", <<0>>, <<0>>, <<0>>),
      Trace("Real Path", pt[1], pt[2], pt[3])>> \o ghost_traces(ev, pe)

anomaly_panel(ev, s) ==
    IF ev > 0
    THEN << <<"Anomaly Calculation">>,
            <<"latex", fmt0(s[5]), fmt2(s[3])>>,
            <<"error", fmt2(Abs(s[1] - s[3]))>> >>
    ELSE << <<"success", "Mathematical alignment is 100%">> >>

col_math_panel(ev, s) ==
    << <<"Healthy Calculation">>, <<"latex", r_base, fmt2(s[1])>> >>
        \o anomaly_panel(ev, s)

\* -------------------------------------------------- 6. database tables

\* "Radius": [7000, 7000 * (1+error_val/100)]
master_list_radius(ev) ==
    <<7000 * KM, FxMul(7000 * KM, ONE + ev * (ONE \div 100))>>

\* --------------------------------------------------------- the script

\* One run of the script from the widgets' values to the page.
script(mode, sl) ==
    LET ev == ErrorVal(mode, sl)
        st == calculate_mission_state(ev)
        d == targeting_drift(st[3])
    IN  [error_val |-> ev, paths_t |-> st[1], paths_e |-> st[2],
         snap |-> st[3], m2 |-> metric2(ev, st[3]), drift |-> d,
         m3 |-> metric3(d), fig |-> col_graph(ev, st[1], st[2]),
         col_math |-> col_math_panel(ev, st[3]),
         df_un |-> master_list_radius(ev)]

MaxRuns == 5

\* The first run of a session: every widget at its default.
Init ==
    LET p == script(Normalized, SliderDefault)
    IN  /\ db_mode = Normalized
        /\ slider = SliderDefault
        /\ error_val = p.error_val
        /\ paths_t = p.paths_t
        /\ paths_e = p.paths_e
        /\ snap = p.snap
        /\ m2 = p.m2
        /\ drift = p.drift
        /\ m3 = p.m3
        /\ fig = p.fig
        /\ col_math = p.col_math
        /\ df_un = p.df_un
        /\ runs = 1
        /\ engine_calls = 1
        /\ renders = 1

\* A run that skips the engine when error_val is 0 and draws from the result
\* of the run before.
RerunStale(mode, sl) ==
    \E p \in {script(mode, sl)} :
      \E s \in {IF p.error_val = 0 THEN snap ELSE p.snap} :
        /\ db_mode' = mode
        /\ slider' = sl
        /\ error_val' = p.error_val
        /\ paths_t' = p.paths_t
        /\ paths_e' = IF p.error_val = 0 THEN paths_e ELSE p.paths_e
        /\ snap' = s
        /\ m2' = metric2(p.error_val, s)
        /\ drift' = targeting_drift(s)
        /\ m3' = metric3(targeting_drift(s))
        /\ fig' = col_graph(p.error_val, p.paths_t, paths_e')
        /\ col_math' = col_math_panel(p.error_val, s)
        /\ df_un' = p.df_un
        /\ runs' = runs + 1
        /\ engine_calls' = engine_calls + (IF p.error_val = 0 THEN 0 ELSE 1)
        /\ renders' = renders + 1

\* A widget changed: the whole script runs again, top to bottom.
Rerun(mode, sl) ==
    \E p \in {script(mode, sl)} :
        /\ db_mode' = mode
        /\ slider' = sl
        /\ error_val' = p.error_val
        /\ paths_t' = p.paths_t
        /\ paths_e' = p.paths_e
        /\ snap' = p.snap
        /\ m2' = p.m2
        /\ drift' = p.drift
        /\ m3' = p.m3
        /\ fig' = p.fig
        /\ col_math' = p.col_math
        /\ df_un' = p.df_un
        /\ runs' = runs + 1
        /\ engine_calls' = engine_calls + 1
        /\ renders' = renders + 1

\* The user picks the other Database State.  The slider is drawn only by an
\* Unnormalized run, and a widget a run does not draw loses its value: it
\* shows its default when it is drawn again.
SelectMode(mode) ==
    /\ runs < MaxRuns
    /\ mode # db_mode
    /\ Rerun(mode, SliderDefault)

\* The user drags the slider, which only an Unnormalized page shows.
MoveSlider(v) ==
    /\ runs < MaxRuns
    /\ db_mode = Unnormalized
    /\ v # slider
    /\ Rerun(db_mode, v)

Next ==
    \/ \E mode \in Modes : SelectMode(mode)
    \/ \E v \in SliderValues : MoveSlider(v)

Spec == Init /\ [][Next]_vars

\* ------------------------------------- the engine on arbitrary arguments

MaxErr == 60
EngineInputs == (0 - MaxErr)..MaxErr
NoMetric == [value |-> 0, delta |-> ""]

InitEngine ==
    /\ error_val \in EngineInputs
    /\ db_mode = Unnormalized
    /\ slider = SliderDefault
    /\ paths_t = <<>>
    /\ paths_e = <<>>
    /\ snap = <<>>
    /\ m2 = NoMetric
    /\ drift = 0
    /\ m3 = NoMetric
    /\ fig = <<>>
    /\ col_math = <<>>
    /\ df_un = <<>>
    /\ runs = 0
    /\ engine_calls = 0
    /\ renders = 0

\* paths_t, paths_e, snap = calculate_mission_state(error_val), then the
\* drift metric of the result.
Evaluate ==
    /\ engine_calls = 0
    /\ LET st == calculate_mission_state(error_val)
           d == targeting_drift(st[3])
       IN  /\ paths_t' = st[1]
           /\ paths_e' = st[2]
           /\ snap' = st[3]
           /\ drift' = d
           /\ m3' = metric3(d)
    /\ engine_calls' = 1
    /\ UNCHANGED <<db_mode, slider, error_val, m2, fig, col_math, df_un,
                   runs, renders>>

NextEngine == Evaluate

SpecEngine == InitEngine /\ [][NextEngine]_vars

\* ------------------------------- the drift metric on arbitrary snapshots

SnapGrid == {-400, -300, 0, 300, 400}
Snapshots ==
    {<<a * KM, b * KM, c * KM, d * KM, r_base * KM>> :
        a \in SnapGrid, b \in SnapGrid, c \in SnapGrid, d \in SnapGrid}

InitMetric ==
    /\ snap \in Snapshots
    /\ error_val = 0
    /\ db_mode = Unnormalized
    /\ slider = SliderDefault
    /\ paths_t = <<>>
    /\ paths_e = <<>>
    /\ m2 = NoMetric
    /\ drift = 0
    /\ m3 = NoMetric
    /\ fig = <<>>
    /\ col_math = <<>>
    /\ df_un = <<>>
    /\ runs = 0
    /\ engine_calls = 0
    /\ renders = 0

TopMetric ==
    /\ m3 = NoMetric
    /\ drift' = targeting_drift(snap)
    /\ m3' = metric3(targeting_drift(snap))
    /\ UNCHANGED <<db_mode, slider, error_val, paths_t, paths_e, snap, m2,
                   fig, col_math, df_un, runs, engine_calls, renders>>

NextMetric == TopMetric

SpecMetric == InitMetric /\ [][NextMetric]_vars

\* ------------------------------------------------------------- claims

Evaluated == engine_calls = 1
Samples == 1..100

\* C1: whatever percentage e the engine is called with, the ghost radius it
\* returns as the fifth snapshot value is 7000 * (1 + e/100), which for an
\* integer e is 70 * (100 + e) km.
C1_GhostRadius ==
    Evaluated =>
        /\ snap[5] * 100 = r_base * KM * (100 + error_val)
        /\ snap[5] = 70 * (100 + error_val) * KM

C1_Witness == Evaluated /\ error_val = 20 /\ snap[5] = 8400 * KM

\* C2: called with 0 the engine returns the ghost radius 7000 and a ghost path
\* equal to the true path in x, y and z at every sample, and the caller's
\* drift is 0.
C2_ZeroAnomaly ==
    (Evaluated /\ error_val = 0) =>
        /\ snap[5] = 7000 * KM
        /\ \A k \in 1..3 : \A i \in Samples : paths_e[k][i] = paths_t[k][i]
        /\ snap[3] = snap[1] /\ snap[4] = snap[2]
        /\ drift = 0
        /\ m3.value = 0

C2_Witness ==
    /\ Evaluated /\ error_val = 0
    /\ DOMAIN paths_e[1] = Samples
    /\ paths_e = paths_t
    /\ drift = 0

\* C3: after any sequence of changes to the two controls the engine's argument
\* is 0 exactly when the selector is Normalized and otherwise the slider's
\* value, an integer in 5..50; it is 20 whenever the slider has just been
\* revealed; and the ghost radius is positive.
C3_State ==
    /\ error_val = 0 <=> db_mode = Normalized
    /\ db_mode # Normalized => error_val = slider /\ error_val \in 5..50
    /\ error_val \in {0} \cup (5..50)
    /\ snap[5] > 0

C3_Reveal == (db_mode = Normalized /\ db_mode' # Normalized) => error_val' = 20

C3_EngineArgument == []C3_State /\ [][C3_Reveal]_vars

C3_Witness ==
    /\ db_mode = Unnormalized /\ slider = 50 /\ error_val = 50
    /\ snap[5] = 10500 * KM

\* C4: the drift is the Euclidean distance between the snapshot's true (x, y)
\* and ghost (x, y), the metric prints it to two decimals, and the label is
\* CRITICAL exactly when the drift exceeds 500 km: a drift of 500 is OK.
SquaredDistance(s) == WAdd(WSq(s[1] - s[3]), WSq(s[2] - s[4]))

\* d is the integer nearest the square root of the wide natural n.
NearestRoot(d, n) ==
    /\ d >= 0
    /\ WLeq(n, WAdd(WSq(d), <<0, d>>))
    /\ d = 0 \/ ~WLeq(WAdd(n, <<0, d>>), WSq(d))

C4_DriftAndStatus ==
    m3 # NoMetric =>
        /\ NearestRoot(drift, SquaredDistance(snap))
        /\ m3.value = fmt2(drift)
        /\ m3.delta = "CRITICAL" <=> drift > 500 * KM
        /\ m3.delta = "OK" <=> drift <= 500 * KM

C4_Witness ==
    /\ m3 # NoMetric
    /\ snap[1] = 0 /\ snap[2] = 0 /\ snap[3] = 300 * KM /\ snap[4] = 400 * KM
    /\ drift = 500 * KM
    /\ m3.delta = "OK"

\* C5 as stated: at e = 20 the ghost radius is 8400 and the drift is 1399.3 km
\* to within half a km, CRITICAL; at e = 5 they are 7350 and 349.8 km, OK.
C5_Original ==
    Evaluated =>
        /\ error_val = 20 =>
              /\ snap[5] = 8400 * KM
              /\ Abs(drift - 1399300) <= 500
              /\ m3.delta = "CRITICAL"
        /\ error_val = 5 =>
              /\ snap[5] = 7350 * KM
              /\ Abs(drift - 349800) <= 500
              /\ m3.delta = "OK"

\* C5 amended: at e = 20 the ghost radius is 8400 and the drift is 1400.0 km
\* (printed 1400.00), CRITICAL; at e = 5 they are 7350 and 350.0 km (printed
\* 350.00), OK.
C5_Scenarios ==
    Evaluated =>
        /\ error_val = 20 =>
              /\ snap[5] = 8400 * KM
              /\ Abs(drift - 1400000) <= 50
              /\ m3.value = 140000
              /\ m3.delta = "CRITICAL"
        /\ error_val = 5 =>
              /\ snap[5] = 7350 * KM
              /\ Abs(drift - 350000) <= 50
              /\ m3.value = 35000
              /\ m3.delta = "OK"

C5_Witness ==
    /\ Evaluated /\ error_val = 20
    /\ m3.value = 140000 /\ m3.delta = "CRITICAL"

\* C6: the drift of e and of -e agree (to the last unit of the arithmetic, and
\* as printed), the drift grows strictly with |e| on either side of 0, and the
\* drift of 0 is 0.
DriftAt(e) == targeting_drift(snapshot(e))

C6_DriftSymmetry ==
    Evaluated =>
        /\ Abs(drift - DriftAt(0 - error_val)) <= 2
        /\ m3.value = fmt2(DriftAt(0 - error_val))
        /\ error_val > 0 => DriftAt(error_val - 1) < drift
        /\ error_val < 0 => DriftAt(error_val + 1) < drift
        /\ error_val = 0 => drift = 0

C6_Witness ==
    /\ Evaluated /\ error_val = -20
    /\ m3.value = 140000
    /\ DriftAt(-19) < drift

\* C7: for every argument both paths hold exactly 100 samples; their z, which
\* is 100 t, runs from 0 to 1000 km in equal steps (to the last unit of the
\* arithmetic), so t runs from 0 to 10; and the ghost path's z is the true
\* path's at every sample, while its x and y are not once e is not 0.
EqualSteps(z) ==
    \A i \in 1..98 : Abs((z[i + 2] - z[i + 1]) - (z[i + 1] - z[i])) <= 1

C7_SamplingAndZ ==
    Evaluated =>
        /\ \A k \in 1..3 :
              DOMAIN paths_t[k] = Samples /\ DOMAIN paths_e[k] = Samples
        /\ paths_t[3][1] = 0
        /\ paths_t[3][100] = 100 * 10 * KM
        /\ EqualSteps(paths_t[3])
        /\ \A i \in Samples : paths_e[3][i] = paths_t[3][i]
        /\ error_val # 0 => paths_e[1] # paths_t[1] /\ paths_e[2] # paths_t[2]

C7_Witness ==
    /\ Evaluated /\ error_val = 20
    /\ paths_e[3] = paths_t[3]
    /\ paths_e[3][100] = 1000 * KM
    /\ paths_e[1][1] = 8400 * KM /\ paths_t[1][1] = 7000 * KM

\* C8: every page shows the origin marker and the true path; it shows the
\* ghost path, the anomaly calculation and the error offset exactly when
\* error_val > 0, and the alignment message exactly when error_val = 0, which
\* is the Normalized selection.
HasTrace(name) == \E i \in DOMAIN fig : fig[i].name = name
HasItem(kind) == \E i \in DOMAIN col_math : col_math[i][1] = kind

C8_GhostShown ==
    /\ fig[1] = Trace("Earth", <<0>>, <<0>>, <<0>>)
    /\ fig[2] = Trace("Real Path", paths_t[1], paths_t[2], paths_t[3])
    /\ HasTrace("Ghost Path") <=> error_val > 0
    /\ error_val > 0 =>
          /\ Len(fig) = 3
          /\ fig[3] = Trace("Ghost Path", paths_e[1], paths_e[2], paths_e[3])
    /\ HasItem("Anomaly Calculation") <=> error_val > 0
    /\ HasItem("error") <=> error_val > 0
    /\ HasItem("success") <=> error_val = 0
    /\ db_mode = Normalized <=> ~HasTrace("Ghost Path")

C8_Witness ==
    /\ runs >= 3 /\ db_mode = Normalized /\ error_val = 0
    /\ Len(fig) = 2 /\ HasItem("success") /\ ~HasItem("error")

\* C9: everything the page shows is what one run of the script makes of the
\* controls' current values, whatever came before, and every run has called
\* the engine once and drawn the page once.
C9_OutputsOfControls ==
    /\ \E p \in {script(db_mode, slider)} :
          /\ error_val = p.error_val
          /\ paths_t = p.paths_t /\ paths_e = p.paths_e /\ snap = p.snap
          /\ m2 = p.m2 /\ drift = p.drift /\ m3 = p.m3
          /\ fig = p.fig /\ col_math = p.col_math /\ df_un = p.df_un
    /\ engine_calls = runs
    /\ renders = runs

C9_Witness ==
    /\ runs >= 3 /\ db_mode = Normalized
    /\ m2 = [value |-> 7000, delta |-> <<>>]
    /\ m3 = [value |-> 0, delta |-> "OK"]
    /\ df_un = <<7000 * KM, 7000 * KM>>
    /\ engine_calls = runs

\* C10: on every page the drift prints as 70 e km, the distance between the
\* ghost radius and 7000, so the label is CRITICAL exactly when the selector is
\* Unnormalized and the slider is at 8 or more: it is OK for Normalized and for
\* 5, 6 and 7, and CRITICAL for the default 20.
C10_CriticalFromEight ==
    /\ m3.value = 100 * 70 * error_val
    /\ m3.value = fmt2(Abs(snap[5] - 7000 * KM))
    /\ m3.delta = "CRITICAL" <=> (db_mode = Unnormalized /\ slider >= 8)
    /\ m3.delta = "OK" <=> (db_mode = Normalized \/ slider \in 5..7)
    /\ (db_mode = Unnormalized /\ slider = 20) => m3.delta = "CRITICAL"

C10_Witness ==
    /\ db_mode = Unnormalized /\ slider = 7
    /\ m3 = [value |-> 49000, delta |-> "OK"]

=============================================================================
